---------------------------- MODULE Spec2Model ----------------------------
(***************************************************************************)
(* Order allocation of the BET ETF calculator.                             *)
(*   Spec        docker-compose: DashApplication.calculate_orders, taken   *)
(*               statement by statement, after the setters of the callback *)
(*   SpecServer  docker-compose: two symbols_datatable_callback calls on   *)
(*               the one DashApplication object of the server              *)
(*   SpecSwarm   docker-swarm: a worker thread of Application and its      *)
(*               calculate_symbols_amounts                                 *)
(*   SpecRun     docker-swarm: the accept loop of Application.run and the  *)
(*               executor it submits the connections to                    *)
(*   SpecStream  docker-swarm: thread_target and the callback of the       *)
(*               visualizer on the two ends of one TCP connection          *)
(*   SpecCollector  pythonanywhere: the loop of collect_symbols_data over  *)
(*               the rows of the index                                     *)
(*   SpecOrders  pythonanywhere: DashApplication.calculate_orders, the     *)
(*               variant that eliminates small orders before it settles    *)
(*                                                                         *)
(* Python floats are modelled as exact rationals <<n, d>> (d > 0, lowest   *)
(* terms), so every statement below is a statement in exact arithmetic.    *)
(* Python dicts are modelled as functions whose DOMAIN is the key set, so  *)
(* a missing key, dict.get(key, default) and dict.update are what they are *)
(* in the source.                                                          *)
(***************************************************************************)
EXTENDS Integers, Sequences, FiniteSets, TLC

(***************************************************************************)
(* Exact rational arithmetic.                                              *)
(***************************************************************************)
Abs(n) == IF n < 0 THEN -n ELSE n

RECURSIVE GCD(_, _)
GCD(a, b) == IF b = 0 THEN a ELSE GCD(b, a % b)

\* n/d in lowest terms with a positive denominator (d # 0).
Norm(n, d) ==
    LET s == IF d < 0 THEN -1 ELSE 1
        g == GCD(Abs(n), Abs(d))
    IN  <<(s * n) \div g, (s * d) \div g>>

Q(n)       == <<n, 1>>
Zero       == Q(0)
One        == Q(1)
IsZero(a)  == a[1] = 0
\* The sum over the least common denominator, to keep the integers small.
RAdd(a, b) ==
    LET g == GCD(a[2], b[2])
    IN  Norm(a[1] * (b[2] \div g) + b[1] * (a[2] \div g), (a[2] \div g) * b[2])
RSub(a, b) == RAdd(a, <<-b[1], b[2]>>)
RMul(a, b) ==
    LET x == Norm(a[1], b[2])
        y == Norm(b[1], a[2])
    IN  Norm(x[1] * y[1], x[2] * y[2])
\* a / b, for b # 0 (the callers raise ZeroDivisionError before dividing).
RDiv(a, b) == RMul(a, Norm(b[2], b[1]))
RLt(a, b)  ==
    LET g == GCD(a[2], b[2])
    IN  a[1] * (b[2] \div g) < b[1] * (a[2] \div g)
RLe(a, b)  == ~RLt(b, a)
RGt(a, b)  == RLt(b, a)

\* math.floor: the greatest integer <= a.
Floor(a) == a[1] \div a[2]

\* round(a, 2): the nearest multiple of 1/100, a tie going to the even one.
Round2(a) ==
    LET x    == RMul(a, Q(100))
        f    == Floor(x)
        frac == RSub(x, Q(f))
        half == <<1, 2>>
        r    == IF RLt(frac, half) THEN f
                ELSE IF RGt(frac, half) THEN f + 1
                ELSE IF f % 2 = 0 THEN f ELSE f + 1
    IN  Norm(r, 100)

RECURSIVE RSum(_)
RSum(seq) == IF seq = <<>> THEN Zero ELSE RAdd(Head(seq), RSum(Tail(seq)))


(***************************************************************************)
(* Python dicts and lists.                                                 *)
(***************************************************************************)
\* dict.get(key, default)
Get(d, key, default) == IF key \in DOMAIN d THEN d[key] ELSE default

\* dict.update(other): the keys of other are added or overwritten.
Update(d, other) ==
    [k \in DOMAIN d \cup DOMAIN other |->
        IF k \in DOMAIN other THEN other[k] ELSE d[k]]

\* sum(dict.values())
RECURSIVE SumValues(_)
SumValues(d) ==
    IF DOMAIN d = {} THEN Zero
    ELSE LET k == CHOOSE x \in DOMAIN d : TRUE
         IN  RAdd(d[k], SumValues([x \in DOMAIN d \ {k} |-> d[x]]))

\* sorted(list, key = ...): ascending in keys[i], equal keys keeping the
\* order of the input (Python's sort is stable, also under reverse=True).
StableSort(list, keys) ==
    LET n      == Len(list)
        pos(i) == Cardinality({j \in 1..n :
                      RLt(keys[j], keys[i]) \/ (keys[j] = keys[i] /\ j < i)}) + 1
    IN  [p \in 1..n |-> list[CHOOSE i \in 1..n : pos(i) = p]]

(***************************************************************************)
(* Bounds and input domains.                                               *)
(***************************************************************************)
\* The longest symbols list the callback hands over.
MaxSymbols == 2

\* Symbols of the BET index, in the order Python compares their names.
SymbolNames == <<"BRD", "FP", "SNP", "TLV">>
Symbols     == {SymbolNames[i] : i \in 1..MaxSymbols}
Rank(name)  == CHOOSE i \in 1..Len(SymbolNames) : SymbolNames[i] = name

\* Index weights as the collector stores them (percent / 100).
Weights == {Zero, <<1, 10>>, <<1, 5>>}
\* Buy prices (RON); 0 is what an emptied table cell falls back to.
Prices == {Zero, Q(33), Q(140)}
\* Holdings typed into the table (a collected record has none).
Quantities == {Q(5)}
\* Invest sums (RON) typed into the Financials table.
InvestAmounts == {Zero, Q(1000)}
\* Transaction fees in percent, as typed into the Financials table.
TransactionFees == {<<1, 2>>, Q(150)}

MINIMUM_ORDER_VALUE == 270

(***************************************************************************)
(* State of the DashApplication object and of one calculate_orders call.   *)
(***************************************************************************)
VARIABLES
    pc,               \* "init", "ready", "settle", "done" or "raised"
    fault,            \* "none", or the exception with the line that raised it
    symbols_list,     \* self.symbols_list: a list of dicts
    invest_amount,    \* self.invest_amount
    transaction_fee,  \* self.transaction_fee (a fraction, not a percentage)
    orders,           \* local dict: symbol -> cash allocated to its order
    symbols_heap,     \* local list: the records still to settle
    input_list,       \* history: self.symbols_list when the call started
    allocated,        \* history: orders when the settlement loop started
    branch,           \* history: "lt", "ge" (line 109) or "none"
    settled,          \* history: symbol -> its order cash when it was settled
    received,         \* history: symbol -> the leftover shares added to it
    popped,           \* history: the symbols popped from the heap, in order
    cb_pc,            \* per request thread: where its callback is
    cb_args,          \* per request thread: the arguments of its callback
    cb_result,        \* per request thread: the table its callback returned
    cb_start,         \* history: symbols_list when the callback was entered
    cb_applied,       \* history: the list the callback put in symbols_list
    cb_calls,         \* history: the calls of calculate_orders it made
    sw_pc,            \* docker-swarm worker thread: where it is
    sw_weights,       \* its symbols_weights: symbol -> weight
    sw_table,         \* the symbols table it sent last
    sw_scale_factor,  \* history: scale_factor of line 158 in the last call
    sw_targets,       \* history: symbol -> target of line 165 in the last call
    sw_target_portfolio,  \* history: target_portfolio of the last call
    run_pc,           \* Application.run: "accept", "submit", "except", "join"
    run_client,       \* the client accept returned last (0: none yet)
    run_exception,    \* the exception the loop is handling, or "none"
    executor_shutdown,  \* the executor was shut down
    connections,      \* the connections accepted so far
    worker,           \* client -> "none", "queued", "running" or "done"
    rejected,         \* history: the clients whose submit raised
    tt_pc,            \* thread_target: "start", "general", "symbols", "closed"
    tt_weights,       \* its symbols_weights
    tt_general,       \* its general_table (line 111)
    tt_sent,          \* history: the tables it sent, in order
    c2s,              \* the bytes the visualizer wrote and nobody read yet
    s2c,              \* the bytes the application wrote and nobody read yet
    vz_pc,            \* visualizer: "connect", "init", "idle", "symbols",
                      \* "reply" or "failed"
    vz_table,         \* the data of its symbols-table
    vz_request,       \* the two tables of the callback that is running
    vz_requests,      \* history: the requests written to the stream
    vz_replies,       \* history: what the callback of each request read
    coll_pc,          \* collect_symbols_data: "start", "rows" or "done"
    bvb_rows,         \* the weight cells of the rows still to read
    weight_total,     \* its local weight_total
    collected_list,   \* its local symbols_list
    raw_weights,      \* history: the weight cells of the rows read so far
    pa_pc,            \* pythonanywhere: "init", "ready", "done" or "raised"
    pa_symbols_list,  \* its self.symbols_list
    pa_invest_amount, \* its self.invest_amount
    pa_transaction_fee,  \* its self.transaction_fee (a percentage)
    pa_fault,         \* "none", or the exception with the line that raised it
    pa_input_list     \* history: self.symbols_list when the call started

\* The locals and the history of a call of calculate_orders taken in steps.
calcVars == <<pc, fault, orders, symbols_heap, input_list, allocated, branch,
              settled, received, popped>>

\* The callbacks in flight in the server.
callbackVars == <<cb_pc, cb_args, cb_result, cb_start, cb_applied, cb_calls>>

\* A worker thread of the docker-swarm application.
swarmVars == <<sw_pc, sw_weights, sw_table, sw_scale_factor, sw_targets,
               sw_target_portfolio>>

\* The accept loop of the docker-swarm application and its executor.
runVars == <<run_pc, run_client, run_exception, executor_shutdown, connections,
             worker, rejected>>

\* The two ends of the connection of one visualizer.
streamVars == <<tt_pc, tt_weights, tt_general, tt_sent, c2s, s2c, vz_pc,
                vz_table, vz_request, vz_requests, vz_replies>>

\* A run of the collector of pythonanywhere.
collectorVars == <<coll_pc, bvb_rows, weight_total, collected_list, raw_weights>>

\* The DashApplication object of pythonanywhere.
ordersVars == <<pa_pc, pa_symbols_list, pa_invest_amount, pa_transaction_fee,
                pa_fault, pa_input_list>>

\* The components that are modelled after the allocators.
otherVars == <<runVars, streamVars, collectorVars, ordersVars>>

\* The DashApplication object, its callbacks and the worker thread.
allocatorVars == <<symbols_list, invest_amount, transaction_fee, calcVars,
                   callbackVars, swarmVars>>

vars == <<symbols_list, invest_amount, transaction_fee, calcVars, callbackVars,
          swarmVars, otherVars>>

EmptyDict == [k \in {} |-> Zero]

\* The threads in which the server runs the callbacks of two requests.
Threads == {"request1", "request2"}

NoArgs == [symbols_list_size |-> 0, invest_amount |-> Zero,
           transaction_fee |-> Zero, symbols_data |-> <<>>]

\* No request has arrived.
CallbacksIdle ==
    /\ cb_pc = [t \in Threads |-> "idle"]
    /\ cb_args = [t \in Threads |-> NoArgs]
    /\ cb_result = [t \in Threads |-> <<>>]
    /\ cb_start = [t \in Threads |-> <<>>]
    /\ cb_applied = [t \in Threads |-> "none"]
    /\ cb_calls = [t \in Threads |-> 0]

\* No client has connected to the docker-swarm application.
SwarmIdle ==
    /\ sw_pc = "start"
    /\ sw_weights = EmptyDict
    /\ sw_table = <<>>
    /\ sw_scale_factor = Zero
    /\ sw_targets = EmptyDict
    /\ sw_target_portfolio = Zero

\* The connections the socket of Application.run accepts in the model.
MaxConnections == 3

Clients == 1..MaxConnections

\* The socket is listening, the executor is new: Application.__init__ and
\* lines 59-61 of run.
RunIdle ==
    /\ run_pc = "accept"
    /\ run_client = 0
    /\ run_exception = "none"
    /\ executor_shutdown = FALSE
    /\ connections = 0
    /\ worker = [c \in Clients |-> "none"]
    /\ rejected = {}

\* The visualizer has not connected yet.
StreamIdle ==
    /\ tt_pc = "start"
    /\ tt_weights = EmptyDict
    /\ tt_general = <<>>
    /\ tt_sent = <<>>
    /\ c2s = <<>>
    /\ s2c = <<>>
    /\ vz_pc = "connect"
    /\ vz_table = <<>>
    /\ vz_request = <<>>
    /\ vz_requests = <<>>
    /\ vz_replies = <<>>

\* collect_symbols_data has not been called.
CollectorIdle ==
    /\ coll_pc = "start"
    /\ bvb_rows = <<>>
    /\ weight_total = Zero
    /\ collected_list = <<>>
    /\ raw_weights = <<>>

INVEST_AMOUNT == 10000

TRANSACTION_FEE == <<49, 100>>

\* DashApplication.__init__ of pythonanywhere, lines 41-47.
OrdersIdle ==
    /\ pa_pc = "init"
    /\ pa_symbols_list = <<>>
    /\ pa_invest_amount = <<INVEST_AMOUNT, 1>>
    /\ pa_transaction_fee = TRANSACTION_FEE
    /\ pa_fault = "none"
    /\ pa_input_list = <<>>

OthersIdle == RunIdle /\ StreamIdle /\ CollectorIdle /\ OrdersIdle

\* No call of calculate_orders is being followed step by step.
CalcIdle ==
    /\ pc = "init"
    /\ fault = "none"
    /\ orders = EmptyDict
    /\ symbols_heap = <<>>
    /\ input_list = <<>>
    /\ allocated = EmptyDict
    /\ branch = "none"
    /\ settled = EmptyDict
    /\ received = EmptyDict
    /\ popped = <<>>

\* DashApplication.__init__
Init ==
    /\ symbols_list = <<>>
    /\ invest_amount = Zero
    /\ transaction_fee = Zero
    /\ CalcIdle
    /\ CallbacksIdle
    /\ SwarmIdle
    /\ OthersIdle

(***************************************************************************)
(* The lists the callback hands to the application.                        *)
(***************************************************************************)
\* A record as collect_symbols_data builds it (the keys the allocator reads).
CollectedRecord(name, weight, price) ==
    [symbol |-> name, weight |-> weight, buy_price |-> price]

\* A row of the Symbols DataTable: a record the application returned before,
\* with the holdings the user typed and the orders of the previous run.
TableRecord(name, weight, price, quantity) ==
    [symbol |-> name, weight |-> weight, buy_price |-> price,
     current_quantity |-> quantity, buy_quantity |-> 9, order_value |-> Q(300)]

\* Lists of distinct symbols, in any order.
SymbolSeqs ==
    {ss \in UNION {[1..n -> Symbols] : n \in 0..MaxSymbols} :
        \A i, j \in DOMAIN ss : i # j => ss[i] # ss[j]}

\* set_transaction_fee: the percentage typed by the user becomes a fraction.
FeeFraction(percent) == RDiv(percent, Q(100))

\* set_symbols_list, set_invest_amount, set_transaction_fee, as the callback
\* calls them before calculate_orders.
SetInputs ==
    /\ pc = "init"
    /\ \E ss \in SymbolSeqs, amount \in InvestAmounts, percent \in TransactionFees :
          /\ \/ \E c \in [DOMAIN ss -> Weights \X Prices] :
                   symbols_list' =
                       [i \in DOMAIN ss |-> CollectedRecord(ss[i], c[i][1], c[i][2])]
             \/ \E c \in [DOMAIN ss -> Weights \X Prices \X Quantities] :
                   symbols_list' =
                       [i \in DOMAIN ss |->
                           TableRecord(ss[i], c[i][1], c[i][2], c[i][3])]
          /\ invest_amount' = amount
          /\ transaction_fee' = FeeFraction(percent)
    /\ input_list' = symbols_list'
    /\ pc' = "ready"
    /\ UNCHANGED <<fault, orders, symbols_heap, allocated, branch, settled,
                   received, popped, callbackVars, swarmVars, otherVars>>

(***************************************************************************)
(* DashApplication.calculate_orders, first part: lines 78-132.             *)
(***************************************************************************)
\* Work with net values.
NetAmount(amount, fee) == RMul(amount, RSub(One, fee))

Holding(s) == RMul(Get(s, "buy_price", Zero), Get(s, "current_quantity", Zero))

ActualPortfolio(list) == RSum([i \in DOMAIN list |-> Holding(list[i])])

WeightSum(list) == RSum([i \in DOMAIN list |-> Get(list[i], "weight", Zero)])

\* Mutant of Rescale: the weight is divided by the scale factor.
RescaleDivided(list, scale_factor) ==
    [i \in DOMAIN list |->
        Update(list[i],
               [weight |-> RDiv(Get(list[i], "weight", Zero), scale_factor)])]

\* Mutant of Rescale: the weights stay as they were collected.
RescaleSkipped(list, scale_factor) == list

\* s.update({'weight': s.get('weight', 0) * scale_factor}), for every record.
Rescale(list, scale_factor) ==
    [i \in DOMAIN list |->
        Update(list[i],
               [weight |-> RMul(Get(list[i], "weight", Zero), scale_factor)])]

\* target - actual of a record whose weight is already rescaled.
Difference(s, target_portfolio) ==
    RSub(RMul(target_portfolio, s.weight), Holding(s))

\* Mutant of FirstIteration: every record gets an order, whatever its difference.
FirstIterationUnfiltered(list, target_portfolio) ==
    [name \in {list[i].symbol : i \in DOMAIN list} |->
        Difference(list[CHOOSE i \in DOMAIN list : list[i].symbol = name],
                   target_portfolio)]

\* The first iteration: the records with a positive difference get an order.
FirstIteration(list, target_portfolio) ==
    LET positive == {i \in DOMAIN list :
                        RGt(Difference(list[i], target_portfolio), Zero)}
        last(name) == CHOOSE i \in positive :
                        /\ list[i].symbol = name
                        /\ \A j \in positive : list[j].symbol = name => j <= i
    IN  [name \in {list[i].symbol : i \in positive} |->
            Difference(list[last(name)], target_portfolio)]

\* next(s.get('weight', 0) for s in self.symbols_list if s['symbol'] == symbol)
WeightOf(list, name) ==
    LET i == CHOOSE i \in DOMAIN list :
                /\ list[i].symbol = name
                /\ \A j \in DOMAIN list : list[j].symbol = name => i <= j
    IN  Get(list[i], "weight", Zero)

\* total_differences < invest_amount: distribute what is left by weight.
DistributeLeft(od, list, left, scale_factor) ==
    [name \in DOMAIN od |->
        RAdd(od[name], RMul(RMul(left, WeightOf(list, name)), scale_factor))]

\* Mutant of ScaleDown: the orders keep their differences.
ScaleDownSkipped(od, scale_factor) == od

\* Otherwise: scale every order with invest_amount / total_differences.
ScaleDown(od, scale_factor) ==
    [name \in DOMAIN od |-> RMul(od[name], scale_factor)]

\* Mutant of SortByPrice: the cheapest record comes first.
SortByPriceAscending(list) ==
    StableSort(list, [i \in DOMAIN list |-> list[i].buy_price])

\* sorted(self.symbols_list, key = buy_price, reverse = True)
SortByPrice(list) ==
    StableSort(list, [i \in DOMAIN list |-> RSub(Zero, list[i].buy_price)])

\* Mutant of SortBySymbol: the list is returned in the order of the input.
SortBySymbolSkipped(list) == list

\* self.symbols_list = sorted(self.symbols_list, key = symbol)
SortBySymbol(list) ==
    StableSort(list, [i \in DOMAIN list |-> Q(Rank(list[i].symbol))])

Raise(what) ==
    /\ pc' = "raised"
    /\ fault' = what

\* Lines 78-132: everything before the settlement loop.
CalculateOrders ==
    /\ pc = "ready"
    /\ LET net    == NetAmount(invest_amount, transaction_fee)
           target == RAdd(ActualPortfolio(symbols_list), net)
           wsum   == WeightSum(symbols_list)
       IN  IF IsZero(wsum)
           THEN \* line 90: 1 / sum(...)
                /\ Raise("ZeroDivisionError@90")
                /\ UNCHANGED <<symbols_list, orders, symbols_heap, allocated,
                               branch>>
           ELSE LET scale_factor == RDiv(One, wsum)
                    list  == Rescale(symbols_list, scale_factor)
                    od    == FirstIteration(list, target)
                    total == SumValues(od)
                IN  /\ symbols_list' = list
                    /\ IF RLt(total, net)
                       THEN /\ orders' = DistributeLeft(od, list,
                                             RSub(net, total), scale_factor)
                            /\ branch' = "lt"
                            /\ allocated' = orders'
                            /\ symbols_heap' = SortByPrice(list)
                            /\ pc' = "settle"
                            /\ UNCHANGED fault
                       ELSE IF IsZero(total)
                            THEN \* line 123: invest_amount / total_differences
                                 /\ Raise("ZeroDivisionError@123")
                                 /\ orders' = od
                                 /\ branch' = "ge"
                                 /\ UNCHANGED <<symbols_heap, allocated>>
                            ELSE /\ orders' = ScaleDown(od, RDiv(net, total))
                                 /\ branch' = "ge"
                                 /\ allocated' = orders'
                                 /\ symbols_heap' = SortByPrice(list)
                                 /\ pc' = "settle"
                                 /\ UNCHANGED fault
    /\ UNCHANGED <<invest_amount, transaction_fee, input_list, settled,
                   received, popped, callbackVars, swarmVars, otherVars>>

(***************************************************************************)
(* The settlement loop, lines 134-169, and the final sort, lines 171-173.  *)
(***************************************************************************)
\* Mutant of RawOrder: the quantity is rounded up instead of down.
RawOrderRoundedUp(value, price) ==
    LET quantity == Floor(RDiv(value, price)) + 1
        raw      == RMul(Q(quantity), price)
    IN  IF RLe(raw, Q(MINIMUM_ORDER_VALUE))
        THEN [buy_quantity |-> 0, order_value |-> Zero]
        ELSE [buy_quantity |-> quantity, order_value |-> raw]

\* Mutant of RawOrder: the minimum order value is not enforced.
RawOrderNoCutoff(value, price) ==
    LET quantity == Floor(RDiv(value, price))
    IN  [buy_quantity |-> quantity, order_value |-> RMul(Q(quantity), price)]

\* Mutant of RawOrder: the cutoff looks at the cash, not at the order value.
RawOrderCutoffOnCash(value, price) ==
    LET quantity == Floor(RDiv(value, price))
        raw      == RMul(Q(quantity), price)
    IN  IF RLe(value, Q(MINIMUM_ORDER_VALUE))
        THEN [buy_quantity |-> 0, order_value |-> Zero]
        ELSE [buy_quantity |-> quantity, order_value |-> raw]

\* Lines 143-150: quantity and value of the order, before the fee.
RawOrder(value, price) ==
    LET quantity == Floor(RDiv(value, price))
        raw      == RMul(Q(quantity), price)
    IN  IF RLe(raw, Q(MINIMUM_ORDER_VALUE))
        THEN [buy_quantity |-> 0, order_value |-> Zero]
        ELSE [buy_quantity |-> quantity, order_value |-> raw]

\* Mutant of Redistribute: the remainder is dropped.
RedistributeDropped(od, value) == od

\* Lines 157-158: the remainder goes to the orders still in the dict.
Redistribute(od, value) ==
    [key \in DOMAIN od |->
        RAdd(od[key], RDiv(value, Q(Cardinality(DOMAIN od))))]

\* Mutant of AddFee: the fee is taken as a percentage, not as a fraction.
AddFeePercent(order, fee) ==
    [order EXCEPT !.order_value =
        Round2(RMul(@, RAdd(One, RMul(fee, Q(100)))))]

\* Lines 161-163: add the tax in the order value.
AddFee(order, fee) ==
    [order EXCEPT !.order_value = Round2(RMul(@, RAdd(One, fee)))]

\* Mutant of UpdateItem: the order is appended as a record of its own.
UpdateItemAppended(list, name, order) ==
    Append(list, Update([symbol |-> name], order))

\* Mutant of UpdateItem: the record is replaced by the order.
UpdateItemReplaced(list, name, order) ==
    LET first == CHOOSE i \in DOMAIN list : list[i].symbol = name
    IN  [list EXCEPT ![first] = Update([symbol |-> name], order)]

\* Lines 166-169: update the first record of that symbol.
UpdateItem(list, name, order) ==
    LET first == CHOOSE i \in DOMAIN list :
                    /\ list[i].symbol = name
                    /\ \A j \in DOMAIN list : list[j].symbol = name => i <= j
    IN  [list EXCEPT ![first] = Update(@, order)]

\* Mutant of PopHeap: the record stays in the heap.
PopHeapKept(heap) == heap

\* Line 136: symbols_heap.pop(0), the heap after the pop.
PopHeap(heap) == Tail(heap)

\* orders.pop(symbol, 0)
Pop(od, name) == [key \in DOMAIN od \ {name} |-> od[key]]

\* One iteration of the while loop; the iteration that empties the heap also
\* runs the final sort and returns.
Settle ==
    /\ pc = "settle"
    /\ LET symbol == Head(symbols_heap)
           name   == symbol.symbol
           price  == Get(symbol, "buy_price", Zero)
           value  == Get(orders, name, Zero)
           rest   == Pop(orders, name)
       IN  /\ symbols_heap' = PopHeap(symbols_heap)
           /\ popped' = Append(popped, name)
           /\ settled' = Update(settled, [n \in {name} |-> value])
           /\ IF IsZero(price)
              THEN \* line 144: value / price
                   /\ Raise("ZeroDivisionError@144")
                   /\ orders' = rest
                   /\ UNCHANGED <<symbols_list, received>>
              ELSE LET order == RawOrder(value, price)
                       left  == RSub(value, order.order_value)
                       list  == UpdateItem(symbols_list, name,
                                           AddFee(order, transaction_fee))
                   IN  /\ orders' = Redistribute(rest, left)
                       /\ received' =
                            Update(received,
                                   [key \in DOMAIN rest |->
                                       RAdd(Get(received, key, Zero),
                                            RDiv(left, Q(Cardinality(DOMAIN rest))))])
                       /\ IF symbols_heap' = <<>>
                          THEN /\ symbols_list' = SortBySymbol(list)
                               /\ pc' = "done"
                          ELSE /\ symbols_list' = list
                               /\ pc' = "settle"
                       /\ UNCHANGED fault
    /\ UNCHANGED <<invest_amount, transaction_fee, input_list, allocated, branch,
                   callbackVars, swarmVars, otherVars>>

Next == SetInputs \/ CalculateOrders \/ Settle

Spec == Init /\ [][Next]_vars

(***************************************************************************)
(* calculate_orders as one step, for the callers that run it between other *)
(* statements: the list it leaves in self.symbols_list and the exception   *)
(* it ends with ("none" when it returns).                                  *)
(***************************************************************************)
RECURSIVE SettleAll(_, _, _, _)
\* Lines 134-173: the settlement loop from a given heap to its end.
SettleAll(heap, od, list, fee) ==
    IF heap = <<>>
    THEN [symbols_list |-> SortBySymbol(list), fault |-> "none"]
    ELSE LET symbol == Head(heap)
             name   == symbol.symbol
             price  == Get(symbol, "buy_price", Zero)
             value  == Get(od, name, Zero)
             rest   == Pop(od, name)
         IN  IF IsZero(price)
             THEN [symbols_list |-> list, fault |-> "ZeroDivisionError@144"]
             ELSE LET order == RawOrder(value, price)
                      left  == RSub(value, order.order_value)
                  IN  SettleAll(PopHeap(heap), Redistribute(rest, left),
                                UpdateItem(list, name, AddFee(order, fee)), fee)

\* Lines 78-173: the whole method.
RunCalculateOrders(list0, amount, fee) ==
    LET net    == NetAmount(amount, fee)
        target == RAdd(ActualPortfolio(list0), net)
        wsum   == WeightSum(list0)
    IN  IF IsZero(wsum)
        THEN [symbols_list |-> list0, fault |-> "ZeroDivisionError@90"]
        ELSE LET scale_factor == RDiv(One, wsum)
                 list  == Rescale(list0, scale_factor)
                 od    == FirstIteration(list, target)
                 total == SumValues(od)
             IN  IF RLt(total, net)
                 THEN SettleAll(SortByPrice(list),
                                DistributeLeft(od, list, RSub(net, total),
                                               scale_factor),
                                list, fee)
                 ELSE IF IsZero(total)
                      THEN [symbols_list |-> list,
                            fault |-> "ZeroDivisionError@123"]
                      ELSE SettleAll(SortByPrice(list),
                                     ScaleDown(od, RDiv(net, total)), list, fee)

\* The steps of CalculateOrders and Settle end where the one-step form ends.
StepsAgreeWithRun ==
    pc \in {"done", "raised"} =>
        [symbols_list |-> symbols_list, fault |-> fault] =
            RunCalculateOrders(input_list, invest_amount, transaction_fee)

(***************************************************************************)
(* symbols_datatable_callback (application.py): the server runs the        *)
(* callback of every request in a thread of its own, on the one            *)
(* DashApplication object of the module.                                   *)
(***************************************************************************)
SYMBOLS_LIST_SIZE == 17

\* The rows of the index on the two websites while the server runs, in the
\* order of the index table.
Market ==
    <<CollectedRecord("FP", <<1, 5>>, Q(140)),
      CollectedRecord("BRD", <<1, 10>>, Q(33))>>

\* collect_symbols_data: the first symbols_list_size rows of the index.
Collect(symbols_list_size) ==
    SubSeq(Market, 1, IF symbols_list_size < Len(Market)
                      THEN symbols_list_size ELSE Len(Market))

\* The values of the inputs of the callback; the index has fewer rows than
\* the largest size.
CallbackSizes == {1, 2, 3}

CallbackAmounts == {Zero, Q(1000)}

CallbackFees == {<<1, 2>>}

\* The rows of the Symbols DataTable in the browser: none yet, or rows of an
\* earlier answer with the holdings the user typed.
CallbackTables ==
    {<<>>,
     <<TableRecord("BRD", One, Q(33), Q(5))>>,
     <<TableRecord("BRD", <<1, 3>>, Q(33), Q(5)),
       TableRecord("FP", <<2, 3>>, Q(140), Q(5))>>}

\* The module body of application.py: the object is built and the default
\* number of symbols is collected before the server starts.
InitServer ==
    /\ symbols_list = Collect(SYMBOLS_LIST_SIZE)
    /\ invest_amount = Zero
    /\ transaction_fee = Zero
    /\ CalcIdle
    /\ CallbacksIdle
    /\ SwarmIdle
    /\ OthersIdle

\* get_symbols_list
GetSymbolsList(list) == IF list # <<>> THEN list ELSE <<>>

\* Mutant of NextList: the rows of the browser are applied first.
NextListTableFirst(list, symbols_list_size, symbols_data) ==
    IF symbols_data # <<>>
    THEN symbols_data
    ELSE IF Len(GetSymbolsList(list)) # symbols_list_size
         THEN Collect(symbols_list_size)
         ELSE list

\* Lines 59-63: the list the first statement of the callback leaves in the
\* application.
NextList(list, symbols_list_size, symbols_data) ==
    IF Len(GetSymbolsList(list)) # symbols_list_size
    THEN Collect(symbols_list_size)
    ELSE IF symbols_data # <<>>
         THEN symbols_data
         ELSE list

\* A request arrives and the server enters the callback with its inputs.
Enter(t) ==
    /\ cb_pc[t] = "idle"
    /\ \E size \in CallbackSizes, amount \in CallbackAmounts,
          percent \in CallbackFees, data \in CallbackTables :
          cb_args' = [cb_args EXCEPT ![t] =
                         [symbols_list_size |-> size, invest_amount |-> amount,
                          transaction_fee |-> percent, symbols_data |-> data]]
    /\ cb_start' = [cb_start EXCEPT ![t] = symbols_list]
    /\ cb_pc' = [cb_pc EXCEPT ![t] = "list"]
    /\ UNCHANGED <<symbols_list, invest_amount, transaction_fee, calcVars, swarmVars, otherVars,
                   cb_result, cb_applied, cb_calls>>

\* Lines 59-63: collect_symbols_data or set_symbols_list.
UpdateList(t) ==
    /\ cb_pc[t] = "list"
    /\ LET a == cb_args[t]
       IN  /\ symbols_list' =
                 NextList(symbols_list, a.symbols_list_size, a.symbols_data)
           /\ cb_applied' = [cb_applied EXCEPT ![t] =
                 IF Len(GetSymbolsList(symbols_list)) # a.symbols_list_size
                 THEN "collected"
                 ELSE IF a.symbols_data # <<>> THEN "table" ELSE "kept"]
    /\ cb_pc' = [cb_pc EXCEPT ![t] = "amount"]
    /\ UNCHANGED <<invest_amount, transaction_fee, calcVars, swarmVars, otherVars, cb_args, cb_result,
                   cb_start, cb_calls>>

\* Line 65: application.set_invest_amount(invest_amount)
SetInvestAmount(t) ==
    /\ cb_pc[t] = "amount"
    /\ invest_amount' = cb_args[t].invest_amount
    /\ cb_pc' = [cb_pc EXCEPT ![t] = "fee"]
    /\ UNCHANGED <<symbols_list, transaction_fee, calcVars, swarmVars, otherVars, cb_args, cb_result,
                   cb_start, cb_applied, cb_calls>>

\* Line 66: application.set_transaction_fee(transaction_fee)
SetTransactionFee(t) ==
    /\ cb_pc[t] = "fee"
    /\ transaction_fee' = FeeFraction(cb_args[t].transaction_fee)
    /\ cb_pc' = [cb_pc EXCEPT ![t] = "calculate"]
    /\ UNCHANGED <<symbols_list, invest_amount, calcVars, swarmVars, otherVars, cb_args, cb_result,
                   cb_start, cb_applied, cb_calls>>

\* Line 68: application.calculate_orders(), on what the object holds now; an
\* exception ends the callback.
CallCalculateOrders(t) ==
    /\ cb_pc[t] = "calculate"
    /\ LET run == RunCalculateOrders(symbols_list, invest_amount,
                                     transaction_fee)
       IN  /\ symbols_list' = run.symbols_list
           /\ cb_pc' = [cb_pc EXCEPT ![t] =
                 IF run.fault = "none" THEN "return" ELSE "failed"]
    /\ cb_calls' = [cb_calls EXCEPT ![t] = @ + 1]
    /\ UNCHANGED <<invest_amount, transaction_fee, calcVars, swarmVars, otherVars, cb_args, cb_result,
                   cb_start, cb_applied>>

\* Line 70: return ..., application.get_symbols_list()
Return(t) ==
    /\ cb_pc[t] = "return"
    /\ cb_result' = [cb_result EXCEPT ![t] = GetSymbolsList(symbols_list)]
    /\ cb_pc' = [cb_pc EXCEPT ![t] = "returned"]
    /\ UNCHANGED <<symbols_list, invest_amount, transaction_fee, calcVars, swarmVars, otherVars,
                   cb_args, cb_start, cb_applied, cb_calls>>

NextServer ==
    \E t \in Threads :
        \/ Enter(t)
        \/ UpdateList(t)
        \/ SetInvestAmount(t)
        \/ SetTransactionFee(t)
        \/ CallCalculateOrders(t)
        \/ Return(t)

SpecServer == InitServer /\ [][NextServer]_vars

(***************************************************************************)
(* docker-swarm/application/application.py: a worker thread serving one    *)
(* visualizer.  The keys current-quantity, buy-quantity and order-value    *)
(* are written with underscores.                                           *)
(***************************************************************************)
\* The rows of the symbols table of the database: weight (a percentage) and
\* price of each symbol.
DbWeights == {Q(20), Q(50)}

DbPrices == {Q(33), Q(140)}

\* What the visualizer sends: the general table and the holdings typed in the
\* symbols table.
SwarmAmounts == {Zero, Q(1000)}

SwarmFees == {Zero, <<1, 2>>}

SwarmQuantities == {Zero, Q(5)}

\* get_db_symbols, line 272: the weight of a row.
DbWeight(percent) == RDiv(percent, Q(100))

\* Lines 97-106: a row of symbols_init.
SwarmRecord(name, price) ==
    [symbol |-> name, price |-> price, current_quantity |-> Zero,
     buy_quantity |-> 0, order_value |-> Zero]

\* The symbols of the rows the query returns, heaviest first.
DbSymbols == <<"FP", "BRD">>

\* The symbols in the order of their names (line 91).
SortedSymbols ==
    StableSort(DbSymbols, [i \in DOMAIN DbSymbols |-> Q(Rank(DbSymbols[i]))])

\* Line 158: scale_factor = 2 - sum(weights of the symbols).
SwarmScaleFactor(symbols, weights) ==
    RSub(Q(2), RSum([i \in DOMAIN symbols |-> weights[symbols[i].symbol]]))

\* Line 165: the target of a symbol.
SwarmTarget(target_portfolio, scale_factor, weight) ==
    RMul(RMul(target_portfolio, scale_factor), weight)

\* Lines 161-169: the orders of the symbols with a positive difference.
SwarmFirstIteration(symbols, weights, target_portfolio, scale_factor) ==
    LET diff(i) == RSub(SwarmTarget(target_portfolio, scale_factor,
                                    weights[symbols[i].symbol]),
                        RMul(symbols[i].current_quantity, symbols[i].price))
        chosen  == {i \in DOMAIN symbols : RGt(diff(i), Zero)}
    IN  [name \in {symbols[i].symbol : i \in chosen} |->
            diff(CHOOSE i \in chosen : symbols[i].symbol = name)]

\* Lines 174-186: the orders after the second pass.
SwarmSecondIteration(od, weights, net, scale_factor) ==
    LET diffs_sum == SumValues(od)
    IN  IF RLt(diffs_sum, net)
        THEN [name \in DOMAIN od |->
                 RAdd(od[name],
                      RMul(RMul(RSub(net, diffs_sum), scale_factor),
                           weights[name]))]
        ELSE IF RGt(diffs_sum, Zero)
             THEN [name \in DOMAIN od |->
                      RMul(od[name], RDiv(net, diffs_sum))]
             ELSE od

\* Lines 190-193.
SwarmMinimumOrder(fee) ==
    IF ~IsZero(fee) THEN RDiv(<<19, 10>>, fee) ELSE Q(268)

\* sorted(symbols, key = price, reverse = True)
SwarmSortByPrice(symbols) ==
    StableSort(symbols, [i \in DOMAIN symbols |-> RSub(Zero, symbols[i].price)])

\* Lines 223-227: the first row of that symbol gets the order.
SwarmUpdateItem(symbols, name, buy_quantity, order_value) ==
    LET first == CHOOSE i \in DOMAIN symbols :
                    /\ symbols[i].symbol = name
                    /\ \A j \in DOMAIN symbols :
                          symbols[j].symbol = name => i <= j
    IN  [symbols EXCEPT ![first].buy_quantity = buy_quantity,
                        ![first].order_value = order_value]

RECURSIVE SwarmSettleAll(_, _, _, _, _)
\* Lines 200-229: the settlement loop from a given heap to its end.
SwarmSettleAll(heap, od, symbols, fee, minimum_order) ==
    IF heap = <<>>
    THEN [symbols |-> symbols, fault |-> "none"]
    ELSE LET name  == Head(heap).symbol
             price == Head(heap).price
             value == Get(od, name, Zero)
             rest  == Pop(od, name)
         IN  IF IsZero(price)
             THEN [symbols |-> symbols, fault |-> "ZeroDivisionError@208"]
             ELSE LET quantity == Floor(RDiv(value, price))
                      raw      == RMul(Q(quantity), price)
                      keep     == RGt(raw, minimum_order)
                      buy      == IF keep THEN quantity ELSE 0
                      worth    == IF keep THEN raw ELSE Zero
                  IN  SwarmSettleAll(
                          Tail(heap), Redistribute(rest, RSub(value, worth)),
                          SwarmUpdateItem(symbols, name, buy,
                              Round2(RMul(worth, RAdd(One, fee)))),
                          fee, minimum_order)

\* calculate_symbols_amounts, lines 148-229, with the values of its locals
\* target_portfolio, scale_factor (line 158) and target (line 165).
CalculateSymbolsAmounts(amount, fee, symbols, weights) ==
    LET net     == RMul(amount, RSub(One, fee))
        actual  == RSum([i \in DOMAIN symbols |->
                       RMul(symbols[i].price, symbols[i].current_quantity)])
        target_portfolio == RAdd(actual, net)
        scale_factor == SwarmScaleFactor(symbols, weights)
        od      == SwarmSecondIteration(
                       SwarmFirstIteration(symbols, weights, target_portfolio,
                                           scale_factor),
                       weights, net, scale_factor)
        run     == SwarmSettleAll(SwarmSortByPrice(symbols), od, symbols, fee,
                                  SwarmMinimumOrder(fee))
    IN  [symbols |-> run.symbols, fault |-> run.fault,
         target_portfolio |-> target_portfolio, scale_factor |-> scale_factor,
         targets |-> [name \in {symbols[i].symbol : i \in DOMAIN symbols} |->
                         SwarmTarget(target_portfolio, scale_factor,
                                     weights[name])]]

\* thread_target, lines 90-108: the rows of the database become the weights
\* and the first table sent to the visualizer.
Connect ==
    /\ sw_pc = "start"
    /\ \E db \in [{DbSymbols[i] : i \in DOMAIN DbSymbols} -> DbWeights \X DbPrices] :
          /\ sw_weights' = [name \in DOMAIN db |-> DbWeight(db[name][1])]
          /\ sw_table' = [i \in DOMAIN SortedSymbols |->
                             SwarmRecord(SortedSymbols[i], db[SortedSymbols[i]][2])]
    /\ sw_pc' = "serving"
    /\ UNCHANGED <<symbols_list, invest_amount, transaction_fee, calcVars,
                   callbackVars, otherVars, sw_scale_factor, sw_targets, sw_target_portfolio>>

\* thread_target, lines 111-121: one turn of the loop.  The visualizer sends
\* the general table and the symbols table with the holdings of the user; the
\* table is calculated and sent back; an exception closes the connection.
Serve ==
    /\ sw_pc = "serving"
    /\ \E amount \in SwarmAmounts, percent \in SwarmFees,
          held \in [DOMAIN sw_table -> SwarmQuantities] :
          LET symbols_table == [i \in DOMAIN sw_table |->
                                   [sw_table[i] EXCEPT !.current_quantity = held[i]]]
              run == CalculateSymbolsAmounts(amount, RDiv(percent, Q(100)),
                                             symbols_table, sw_weights)
          IN  /\ sw_scale_factor' = run.scale_factor
              /\ sw_targets' = run.targets
              /\ sw_target_portfolio' = run.target_portfolio
              /\ IF run.fault = "none"
                 THEN /\ sw_table' = run.symbols
                      /\ sw_pc' = "serving"
                 ELSE /\ sw_pc' = "closed"
                      /\ UNCHANGED sw_table
    /\ UNCHANGED <<symbols_list, invest_amount, transaction_fee, calcVars,
                   callbackVars, otherVars, sw_weights>>

NextSwarm == Connect \/ Serve

SpecSwarm == Init /\ [][NextSwarm]_vars

(***************************************************************************)
(* docker-swarm/application/application.py, Application.run: the accept    *)
(* loop, lines 63-70, and the ThreadPoolExecutor of line 53.               *)
(***************************************************************************)
\* max_workers of the executor: the backlog of the application.
backlog == 2

\* Mutant of Catches: the clause catches the errors of the socket only.
CatchesSocketErrors(exception) == exception = "OSError"

\* except Exception, line 68: OSError (accept) and RuntimeError (submit) are
\* subclasses of Exception.
Catches(exception) == exception \in {"OSError", "RuntimeError"}

\* Where run goes when a statement of the try block raises.
RunRaise(exception) ==
    /\ run_exception' = exception
    /\ run_pc' = IF Catches(exception) THEN "except" ELSE "exited"

\* Line 65: accept returns the socket of the next client.
Accept ==
    /\ run_pc = "accept"
    /\ connections < MaxConnections
    /\ connections' = connections + 1
    /\ run_client' = connections + 1
    /\ run_pc' = "submit"
    /\ UNCHANGED <<allocatorVars, streamVars, collectorVars, ordersVars, run_exception,
                   executor_shutdown, worker, rejected>>

\* Line 65: accept raises (a connection aborted, no descriptor left).
AcceptRaises ==
    /\ run_pc = "accept"
    /\ RunRaise("OSError")
    /\ UNCHANGED <<allocatorVars, streamVars, collectorVars, ordersVars, run_client, executor_shutdown, connections,
                   worker, rejected>>

\* Line 66: submit queues thread_target(client, address) for a worker; an
\* executor that was shut down raises RuntimeError instead.
Submit ==
    /\ run_pc = "submit"
    /\ IF executor_shutdown
       THEN /\ RunRaise("RuntimeError")
            /\ rejected' = rejected \cup {run_client}
            /\ UNCHANGED worker
       ELSE /\ worker' = [worker EXCEPT ![run_client] = "queued"]
            /\ run_pc' = "accept"
            /\ UNCHANGED <<run_exception, rejected>>
    /\ UNCHANGED <<allocatorVars, streamVars, collectorVars, ordersVars, run_client, executor_shutdown, connections>>

\* Line 69: executor.shutdown() first marks the executor as shut down.
Shutdown ==
    /\ run_pc = "except"
    /\ executor_shutdown' = TRUE
    /\ run_pc' = "join"
    /\ UNCHANGED <<allocatorVars, streamVars, collectorVars, ordersVars, run_client, run_exception, connections,
                   worker, rejected>>

\* Lines 69-70: shutdown() returns when the work handed over before has
\* ended; print_exc() and the next turn of the loop follow.
Join ==
    /\ run_pc = "join"
    /\ \A c \in Clients : worker[c] \in {"none", "done"}
    /\ run_exception' = "none"
    /\ run_pc' = "accept"
    /\ UNCHANGED <<allocatorVars, streamVars, collectorVars, ordersVars, run_client, executor_shutdown, connections,
                   worker, rejected>>

\* A worker of the executor takes thread_target(client, address) from the
\* queue, line 73.
WorkerStart(c) ==
    /\ worker[c] = "queued"
    /\ Cardinality({d \in Clients : worker[d] = "running"}) < backlog
    /\ worker' = [worker EXCEPT ![c] = "running"]
    /\ UNCHANGED <<allocatorVars, streamVars, collectorVars, ordersVars, run_pc, run_client, run_exception,
                   executor_shutdown, connections, rejected>>

\* Lines 123-125: an exception ends thread_target and closes the client.
WorkerEnd(c) ==
    /\ worker[c] = "running"
    /\ worker' = [worker EXCEPT ![c] = "done"]
    /\ UNCHANGED <<allocatorVars, streamVars, collectorVars, ordersVars, run_pc, run_client, run_exception,
                   executor_shutdown, connections, rejected>>

NextRun ==
    \/ Accept
    \/ AcceptRaises
    \/ Submit
    \/ Shutdown
    \/ Join
    \/ \E c \in Clients : WorkerStart(c) \/ WorkerEnd(c)

SpecRun == Init /\ [][NextRun]_vars

(***************************************************************************)
(* One TCP connection between visualizer/visualizer.py (the callback       *)
(* update_symbols_table, lines 34-57, and the start-up, lines 78-79) and   *)
(* thread_target of application.py (lines 89-125).  A stream is the        *)
(* sequence of the JSON documents written to it and not read yet; the      *)
(* tables of the model are shorter than the 1024 bytes of a recv.          *)
(***************************************************************************)
\* The callbacks of the visualizer that write a request.
MaxRequests == 2

\* A cell of a table the user has emptied.
EmptyCell == <<>>

\* The rows of the database while the visualizer is connected.
StreamDb == [FP |-> [weight |-> Q(50), price |-> Q(140)],
             BRD |-> [weight |-> Q(20), price |-> Q(33)]]

\* sendall(dumps(table).encode('utf-8')): the document is added to the bytes
\* of the stream.
SendAll(stream, kind, table) ==
    Append(stream, [kind |-> kind, table |-> table])

\* recv(1024): the bytes that have arrived, which are those of the first
\* document or of the first documents of the stream.
Chunks(stream) == {SubSeq(stream, 1, j) : j \in 1..Len(stream)}

\* What recv leaves in the stream.
AfterRecv(stream, chunk) == SubSeq(stream, Len(chunk) + 1, Len(stream))

\* loads(chunk.decode('utf-8')): one document is parsed, anything after a
\* document raises JSONDecodeError (Extra data).
Loads(chunk) ==
    IF Len(chunk) = 1
    THEN [ok |-> TRUE, kind |-> chunk[1].kind, table |-> chunk[1].table]
    ELSE [ok |-> FALSE, kind |-> "none", table |-> <<>>]

\* Lines 39-47 of visualizer.py: a cell that is empty and not 0.
HasEmptyCell(general_table, symbols_table) ==
    \/ \E i \in DOMAIN general_table :
          \/ general_table[i].invest_amount = EmptyCell
          \/ general_table[i].transaction_fee = EmptyCell
    \/ \E i \in DOMAIN symbols_table :
          symbols_table[i].current_quantity = EmptyCell

\* Line 78 of visualizer.py: server_socket.connect(SERVER_ADDRESS)
VzConnect ==
    /\ vz_pc = "connect"
    /\ vz_pc' = "init"
    /\ UNCHANGED <<allocatorVars, runVars, collectorVars, ordersVars, tt_pc, tt_weights, tt_general,
                   tt_sent, c2s, s2c, vz_table, vz_request, vz_requests,
                   vz_replies>>

\* thread_target, lines 89-108: the weights are read and symbols_init is
\* sent.
TtStart ==
    /\ tt_pc = "start"
    /\ vz_pc # "connect"
    /\ LET symbols_init == [i \in DOMAIN SortedSymbols |->
                               SwarmRecord(SortedSymbols[i],
                                           StreamDb[SortedSymbols[i]].price)]
       IN  /\ tt_weights' = [name \in DOMAIN StreamDb |->
                                DbWeight(StreamDb[name].weight)]
           /\ s2c' = SendAll(s2c, "symbols", symbols_init)
           /\ tt_sent' = Append(tt_sent, [kind |-> "init", table |-> symbols_init])
    /\ tt_pc' = "general"
    /\ UNCHANGED <<allocatorVars, runVars, collectorVars, ordersVars, tt_general, c2s, vz_pc, vz_table,
                   vz_request, vz_requests, vz_replies>>

\* Line 79 of visualizer.py: the first table is read for the layout.
VzRecvInit ==
    /\ vz_pc = "init"
    /\ \E chunk \in Chunks(s2c) :
          /\ s2c' = AfterRecv(s2c, chunk)
          /\ IF Loads(chunk).ok
             THEN /\ vz_table' = Loads(chunk).table
                  /\ vz_pc' = "idle"
             ELSE /\ vz_pc' = "failed"
                  /\ UNCHANGED vz_table
    /\ UNCHANGED <<allocatorVars, runVars, collectorVars, ordersVars, tt_pc, tt_weights, tt_general,
                   tt_sent, c2s, vz_request, vz_requests, vz_replies>>

\* update_symbols_table, lines 34-50: the user has edited a table; a table
\* with an empty cell is returned as it is, otherwise the general table is
\* written to the stream.
VzSendGeneral ==
    /\ vz_pc = "idle"
    /\ Len(vz_requests) < MaxRequests
    /\ \E amount \in SwarmAmounts \cup {EmptyCell}, percent \in SwarmFees,
          held \in [DOMAIN vz_table -> SwarmQuantities] :
          LET general_table == <<[invest_amount |-> amount,
                                  transaction_fee |-> percent]>>
              symbols_table == [i \in DOMAIN vz_table |->
                                   [vz_table[i] EXCEPT !.current_quantity = held[i]]]
          IN  IF HasEmptyCell(general_table, symbols_table)
              THEN UNCHANGED <<c2s, vz_pc, vz_request>>
              ELSE /\ c2s' = SendAll(c2s, "general", general_table)
                   /\ vz_request' = [general_table |-> general_table,
                                     symbols_table |-> symbols_table]
                   /\ vz_pc' = "symbols"
    /\ UNCHANGED <<allocatorVars, runVars, collectorVars, ordersVars, tt_pc, tt_weights, tt_general,
                   tt_sent, s2c, vz_table, vz_requests, vz_replies>>

\* Line 51: the symbols table is written to the stream.
VzSendSymbols ==
    /\ vz_pc = "symbols"
    /\ c2s' = SendAll(c2s, "symbols", vz_request.symbols_table)
    /\ vz_requests' = Append(vz_requests, vz_request)
    /\ vz_pc' = "reply"
    /\ UNCHANGED <<allocatorVars, runVars, collectorVars, ordersVars, tt_pc, tt_weights, tt_general,
                   tt_sent, s2c, vz_table, vz_request, vz_replies>>

\* Lines 52-57: the answer is read and returned to the table.  When the
\* application has closed the connection recv returns no bytes, loads
\* raises, and the handler closes the socket and cannot connect it again.
VzRecvReply ==
    /\ vz_pc = "reply"
    /\ \/ \E chunk \in Chunks(s2c) :
             /\ s2c' = AfterRecv(s2c, chunk)
             /\ IF Loads(chunk).ok
                THEN /\ vz_table' = Loads(chunk).table
                     /\ vz_replies' = Append(vz_replies,
                                             [read |-> TRUE,
                                              table |-> Loads(chunk).table])
                     /\ vz_pc' = "idle"
                ELSE /\ vz_replies' = Append(vz_replies,
                                             [read |-> FALSE, table |-> <<>>])
                     /\ vz_pc' = "failed"
                     /\ UNCHANGED vz_table
       \/ /\ s2c = <<>>
          /\ tt_pc = "closed"
          /\ vz_replies' = Append(vz_replies, [read |-> FALSE, table |-> <<>>])
          /\ vz_pc' = "failed"
          /\ UNCHANGED <<s2c, vz_table>>
    /\ UNCHANGED <<allocatorVars, runVars, collectorVars, ordersVars, tt_pc, tt_weights, tt_general,
                   tt_sent, c2s, vz_request, vz_requests>>

\* thread_target, line 111: general_table = loads(client.recv(1024)); an
\* exception closes the client (lines 123-125).
TtRecvGeneral ==
    /\ tt_pc = "general"
    /\ \E chunk \in Chunks(c2s) :
          /\ c2s' = AfterRecv(c2s, chunk)
          /\ IF Loads(chunk).ok
             THEN /\ tt_general' = Loads(chunk)
                  /\ tt_pc' = "symbols"
             ELSE /\ tt_pc' = "closed"
                  /\ UNCHANGED tt_general
    /\ UNCHANGED <<allocatorVars, runVars, collectorVars, ordersVars, tt_weights, tt_sent, s2c, vz_pc,
                   vz_table, vz_request, vz_requests, vz_replies>>

\* thread_target, lines 112-121: the symbols table is read, the amounts are
\* calculated and the table is sent; an exception closes the client.
TtServe ==
    /\ tt_pc = "symbols"
    /\ \E chunk \in Chunks(c2s) :
          /\ c2s' = AfterRecv(c2s, chunk)
          /\ IF Loads(chunk).ok /\ tt_general.kind = "general"
                /\ Loads(chunk).kind = "symbols"
             THEN LET general == tt_general.table[1]
                      run == CalculateSymbolsAmounts(
                                 general.invest_amount,
                                 RDiv(general.transaction_fee, Q(100)),
                                 Loads(chunk).table, tt_weights)
                  IN  IF run.fault = "none"
                      THEN /\ s2c' = SendAll(s2c, "symbols", run.symbols)
                           /\ tt_sent' = Append(tt_sent,
                                                [kind |-> "reply",
                                                 table |-> run.symbols])
                           /\ tt_pc' = "general"
                      ELSE /\ tt_pc' = "closed"
                           /\ UNCHANGED <<s2c, tt_sent>>
             ELSE /\ tt_pc' = "closed"
                  /\ UNCHANGED <<s2c, tt_sent>>
    /\ UNCHANGED <<allocatorVars, runVars, collectorVars, ordersVars, tt_weights, tt_general, vz_pc,
                   vz_table, vz_request, vz_requests, vz_replies>>

NextStream ==
    \/ VzConnect
    \/ TtStart
    \/ VzRecvInit
    \/ VzSendGeneral
    \/ VzSendSymbols
    \/ VzRecvReply
    \/ TtRecvGeneral
    \/ TtServe

SpecStream == Init /\ [][NextStream]_vars

(***************************************************************************)
(* pythonanywhere/collector.py, collect_symbols_data: the weights of the   *)
(* rows of the index, lines 61-124.                                        *)
(***************************************************************************)
\* The rows of the index table in the model.
MaxRows == 3

\* The weight cells of the table (percentages): 0, 12.346, 40 and 60.5.
RawWeights == {Zero, <<6173, 500>>, Q(40), <<121, 2>>}

RMin(a, b) == IF RLt(b, a) THEN b ELSE a

\* Mutant of CappedWeight: the weight is rounded and not capped.
CappedWeightRounded(raw, total) == Round2(raw)

\* Line 76: weight = min(round(float(...), 2), weight_total)
CappedWeight(raw, total) == RMin(Round2(raw), total)

\* Lines 61-68: the document is fetched, weight_total starts at 100 and the
\* first symbols_list_size rows are taken.
GetBvbDocument ==
    /\ coll_pc = "start"
    /\ \E n \in 0..MaxRows, symbols_list_size \in 0..MaxRows :
          \E rows \in [1..n -> RawWeights] :
              bvb_rows' = SubSeq(rows, 1, IF symbols_list_size < n
                                          THEN symbols_list_size ELSE n)
    /\ weight_total' = Q(100)
    /\ collected_list' = <<>>
    /\ raw_weights' = <<>>
    /\ coll_pc' = "rows"
    /\ UNCHANGED <<allocatorVars, runVars, streamVars, ordersVars>>

\* Lines 68-116: one row of the index.
CollectRow ==
    /\ coll_pc = "rows"
    /\ bvb_rows # <<>>
    /\ LET weight == CappedWeight(Head(bvb_rows), weight_total)
       IN  /\ weight_total' = Round2(RSub(weight_total, weight))
           /\ collected_list' = Append(collected_list, [weight |-> weight])
    /\ raw_weights' = Append(raw_weights, Head(bvb_rows))
    /\ bvb_rows' = Tail(bvb_rows)
    /\ UNCHANGED <<allocatorVars, runVars, streamVars, ordersVars, coll_pc>>

\* Lines 118-124: the list is written to the file.
DumpSymbols ==
    /\ coll_pc = "rows"
    /\ bvb_rows = <<>>
    /\ coll_pc' = "done"
    /\ UNCHANGED <<allocatorVars, runVars, streamVars, ordersVars, bvb_rows, weight_total,
                   collected_list, raw_weights>>

NextCollector == GetBvbDocument \/ CollectRow \/ DumpSymbols

SpecCollector == Init /\ [][NextCollector]_vars

(***************************************************************************)
(* pythonanywhere/dash_application.py, DashApplication.calculate_orders,   *)
(* lines 49-201.  The weights are percentages and so is the fee.           *)
(***************************************************************************)
MINIMUM_ORDER_VALUE_PA == 310

\* The symbols of the table, in the order of the file.
PaSymbols == <<"FP", "BRD">>

PaWeights == {Zero, Q(20), Q(50)}

PaPrices == {Zero, Q(33), Q(155)}

PaQuantities == {Zero, Q(5)}

PaAmounts == {Zero, Q(465), Q(1000)}

\* The fee typed by the user (a percentage).
PaFees == {Zero, Q(20)}

\* The fixed part of the fee of an order (RON), lines 158 and 170.
FixedFee == <<149, 100>>

\* max(0, value)
Positive(value) == IF RLt(value, Zero) THEN Zero ELSE value

\* Lines 75-77: the sum of the weights as fractions.
PaWeightSum(list) ==
    RSum([i \in DOMAIN list |-> RDiv(Get(list[i], "weight", Zero), Q(100))])

\* Lines 85-86: weight_buy of a record, as a fraction.
WeightBuy(s, scale_factor) == RDiv(RMul(s.weight, scale_factor), Q(100))

RECURSIVE TargetLoop(_, _, _, _, _, _)
\* Lines 82-93: every record gets its weight_buy; the record that is the
\* furthest above its share of the actual portfolio sets the target.
TargetLoop(list, i, scale_factor, actual_portfolio, target_portfolio, difference_min) ==
    IF i > Len(list)
    THEN [symbols_list |-> list, target_portfolio |-> target_portfolio,
          fault |-> "none"]
    ELSE LET weight_buy == WeightBuy(list[i], scale_factor)
             s          == Update(list[i],
                                  [weight |-> list[i].weight,
                                   weight_buy |-> RMul(weight_buy, Q(100))])
             updated    == [list EXCEPT ![i] = s]
             value_now  == Holding(s)
             value_fut  == RMul(actual_portfolio, weight_buy)
             difference == RSub(value_fut, value_now)
         IN  IF ~IsZero(difference) /\ RGt(difference_min, difference)
             THEN IF IsZero(weight_buy)
                  THEN [symbols_list |-> updated,
                        target_portfolio |-> target_portfolio,
                        fault |-> "ZeroDivisionError@91"]
                  ELSE TargetLoop(updated, i + 1, scale_factor,
                                  actual_portfolio,
                                  RDiv(value_now, weight_buy), difference)
             ELSE TargetLoop(updated, i + 1, scale_factor, actual_portfolio,
                             target_portfolio, difference_min)

\* Lines 101-115: the value to buy of every record; the positive ones enter
\* symbol_to_buy_value.
ValuesToBuy(list, target_portfolio, actual_portfolio, amount) ==
    LET total_value_buy   == RSub(target_portfolio, actual_portfolio)
        total_value_extra == Positive(RSub(amount, total_value_buy))
        value_buy(s) == RSub(RMul(target_portfolio, RDiv(s.weight_buy, Q(100))),
                             Holding(s))
        difference(s) ==
            IF ~IsZero(total_value_extra)
            THEN RAdd(value_buy(s),
                      RMul(total_value_extra, RDiv(s.weight_buy, Q(100))))
            ELSE RMul(RDiv(value_buy(s), total_value_buy), amount)
    IN  IF list # <<>> /\ IsZero(total_value_extra) /\ IsZero(total_value_buy)
        THEN [symbol_to_buy_value |-> EmptyDict,
              fault |-> "ZeroDivisionError@112"]
        ELSE [symbol_to_buy_value |->
                 [name \in {list[i].symbol : i \in
                               {j \in DOMAIN list :
                                   RGt(difference(list[j]), Zero)}} |->
                     difference(list[CHOOSE i \in DOMAIN list :
                                        list[i].symbol = name])],
              fault |-> "none"]

\* Lines 135-139 and 189-193: a value is shared among the symbols still in
\* symbol_to_buy_value, in proportion to what they have.
Distribute(symbol_to_buy_value, value) ==
    LET total_to_buy == SumValues(symbol_to_buy_value)
    IN  IF DOMAIN symbol_to_buy_value = {}
        THEN [symbol_to_buy_value |-> symbol_to_buy_value, fault |-> "none"]
        ELSE IF IsZero(total_to_buy)
             THEN [symbol_to_buy_value |-> symbol_to_buy_value,
                   fault |-> "ZeroDivisionError"]
             ELSE [symbol_to_buy_value |->
                      [key \in DOMAIN symbol_to_buy_value |->
                          RAdd(symbol_to_buy_value[key],
                               RMul(value, RDiv(symbol_to_buy_value[key],
                                                total_to_buy)))],
                   fault |-> "none"]

RECURSIVE Eliminate(_, _)
\* Lines 120-139: the symbols whose value buys no more than the minimum are
\* taken out, lightest first, and their value goes to the others.
Eliminate(heap, symbol_to_buy_value) ==
    IF heap = <<>>
    THEN [symbol_to_buy_value |-> symbol_to_buy_value, fault |-> "none"]
    ELSE LET name      == Head(heap).symbol
             buy_price == Get(Head(heap), "buy_price", Zero)
             buy_value == Get(symbol_to_buy_value, name, Zero)
         IN  IF IsZero(buy_price)
             THEN [symbol_to_buy_value |-> symbol_to_buy_value,
                   fault |-> "ZeroDivisionError@131"]
             ELSE IF RLe(RMul(Q(Floor(RDiv(buy_value, buy_price))), buy_price),
                         Q(MINIMUM_ORDER_VALUE_PA))
                  THEN LET shared == Distribute(Pop(symbol_to_buy_value, name),
                                                buy_value)
                       IN  IF shared.fault # "none"
                           THEN [symbol_to_buy_value |-> symbol_to_buy_value,
                                 fault |-> "ZeroDivisionError@137"]
                           ELSE Eliminate(Tail(heap), shared.symbol_to_buy_value)
                  ELSE Eliminate(Tail(heap), symbol_to_buy_value)

\* Lines 162-180: the order of a symbol with a price; an order_value that
\* does not exceed the minimum becomes no order.
MakeOrder(name, buy_value, buy_price, fee) ==
    LET buy_quantity == Floor(RDiv(buy_value, buy_price))
        order_value  == Round2(RAdd(RMul(RMul(Q(buy_quantity), buy_price),
                                         RAdd(One, RDiv(fee, Q(100)))),
                                    FixedFee))
    IN  IF RLe(order_value, Q(MINIMUM_ORDER_VALUE_PA))
        THEN [buy_quantity |-> 0, order_value |-> Zero]
        ELSE [buy_price |-> buy_price, buy_quantity |-> buy_quantity,
              order_value |-> order_value, symbol |-> name]

RECURSIVE SettleOrders(_, _, _, _)
\* Lines 145-201: the settlement loop, dearest symbol first, and the final
\* sort.  A record without a price leaves order = {} and the comparison of
\* line 179 raises TypeError.
SettleOrders(heap, symbol_to_buy_value, list, fee) ==
    IF heap = <<>>
    THEN [symbols_list |-> SortBySymbol(list), fault |-> "none"]
    ELSE LET name      == Head(heap).symbol
             buy_price == Get(Head(heap), "buy_price", Zero)
             buy_value == Positive(RMul(RSub(Get(symbol_to_buy_value, name, Zero),
                                             FixedFee),
                                        RSub(One, RDiv(fee, Q(100)))))
             rest      == Pop(symbol_to_buy_value, name)
         IN  IF IsZero(buy_price)
             THEN [symbols_list |-> list, fault |-> "TypeError@179"]
             ELSE LET order     == MakeOrder(name, buy_value, buy_price, fee)
                      remaining == RSub(buy_value, order.order_value)
                      shared    == Distribute(rest, remaining)
                  IN  IF shared.fault # "none"
                      THEN [symbols_list |-> list,
                            fault |-> "ZeroDivisionError@191"]
                      ELSE SettleOrders(Tail(heap), shared.symbol_to_buy_value,
                                        UpdateItem(list, name, order), fee)

\* The list, the amount and the fee are set as the callback sets them before
\* it calls calculate_orders.
SetInputsPa ==
    /\ pa_pc = "init"
    /\ \E n \in 0..Len(PaSymbols), amount \in PaAmounts, percent \in PaFees :
          \E c \in [1..n -> PaWeights \X PaPrices \X PaQuantities] :
              /\ pa_symbols_list' =
                    [i \in 1..n |->
                        [symbol |-> PaSymbols[i], weight |-> c[i][1],
                         buy_price |-> c[i][2], current_quantity |-> c[i][3]]]
              /\ pa_invest_amount' = amount
              /\ pa_transaction_fee' = percent
    /\ pa_input_list' = pa_symbols_list'
    /\ pa_pc' = "ready"
    /\ UNCHANGED <<allocatorVars, runVars, streamVars, collectorVars, pa_fault>>

\* calculate_orders, lines 49-201, the whole method in one step.  Every local
\* of the method is bound once, in the order of the code; a step that raised
\* hands its exception to the steps after it, which then do nothing.
CalculateOrdersStep ==
    /\ pa_pc = "ready"
    /\ \E actual_portfolio \in {ActualPortfolio(pa_symbols_list)},
          wsum \in {PaWeightSum(pa_symbols_list)} :
       \E loop \in {IF IsZero(wsum)
                    THEN [symbols_list |-> pa_symbols_list,
                          target_portfolio |-> Zero,
                          fault |-> "ZeroDivisionError@75"]
                    ELSE TargetLoop(pa_symbols_list, 1, RDiv(One, wsum),
                                    actual_portfolio,
                                    RAdd(actual_portfolio, pa_invest_amount),
                                    Zero)} :
       \E list \in {loop.symbols_list} :
       \E first \in {IF loop.fault # "none"
                     THEN [symbol_to_buy_value |-> EmptyDict,
                           fault |-> loop.fault]
                     ELSE ValuesToBuy(list, loop.target_portfolio,
                                      actual_portfolio, pa_invest_amount)} :
       \E kept \in {IF first.fault # "none"
                    THEN first
                    ELSE Eliminate(StableSort(list, [i \in DOMAIN list |->
                                                        list[i].weight]),
                                   first.symbol_to_buy_value)} :
       \E run \in {IF kept.fault # "none"
                   THEN [symbols_list |-> list, fault |-> kept.fault]
                   ELSE SettleOrders(StableSort(list, [i \in DOMAIN list |->
                                         RSub(Zero, list[i].buy_price)]),
                                     kept.symbol_to_buy_value, list,
                                     pa_transaction_fee)} :
          /\ pa_symbols_list' = run.symbols_list
          /\ pa_fault' = run.fault
          /\ pa_pc' = IF run.fault = "none" THEN "done" ELSE "raised"
    /\ UNCHANGED <<allocatorVars, runVars, streamVars, collectorVars,
                   pa_invest_amount, pa_transaction_fee, pa_input_list>>

NextOrders == SetInputsPa \/ CalculateOrdersStep

SpecOrders == Init /\ [][NextOrders]_vars

(***************************************************************************)
(* Properties of calculate_orders.                                         *)
(***************************************************************************)
Returned == pc = "done"

\* The settlement loop was entered (it may have raised since).
LoopReached == pc \in {"settle", "done"} \/ fault = "ZeroDivisionError@144"

Records == {symbols_list[i] : i \in DOMAIN symbols_list}

\* buy_quantity * buy_price of a settled record.
RawValue(s) == RMul(Q(s.buy_quantity), s.buy_price)

\* The cash a symbol had when it was settled.
Cash(s) == settled[s.symbol]

RMax(a, b) == IF RLt(a, b) THEN b ELSE a

NoOrder(s) == s.buy_quantity = 0 /\ s.order_value = Zero

\* C1: after calculate_orders returns, every record has either no order
\* (buy_quantity = 0 and order_value = 0), or buy_quantity = floor(c / buy_price)
\* and order_value = round(buy_quantity * buy_price * (1 + fee), 2), where c,
\* the cash of the symbol when it was settled, is its allocation before the
\* loop plus every leftover share added to it by earlier settlements.
C1_OrderFromSettledCash ==
    Returned =>
        \A s \in Records :
            /\ Cash(s) = RAdd(Get(allocated, s.symbol, Zero),
                              Get(received, s.symbol, Zero))
            /\ \/ NoOrder(s)
               \/ /\ s.buy_quantity = Floor(RDiv(Cash(s), s.buy_price))
                  /\ s.order_value =
                        Round2(RMul(RawValue(s), RAdd(One, transaction_fee)))

\* An order was bought with cash that includes a leftover share.
C1_Witness ==
    /\ Returned
    /\ \E s \in Records :
          /\ s.buy_quantity > 0
          /\ RGt(Get(received, s.symbol, Zero), Zero)
          /\ s.buy_quantity > Floor(RDiv(allocated[s.symbol], s.buy_price))

\* C2: when the else branch of line 109 is taken (total_differences >=
\* invest_amount), the orders sum to the net invest amount when the settlement
\* loop starts.
C2_Conservation ==
    (LoopReached /\ branch = "ge") =>
        SumValues(allocated) = NetAmount(invest_amount, transaction_fee)

\* The loop starts with orders that were scaled down by a factor below 1.
C2_Witness ==
    /\ pc = "settle"
    /\ branch = "ge"
    /\ orders = allocated
    /\ Cardinality(DOMAIN allocated) >= 1
    /\ RLt(NetAmount(invest_amount, transaction_fee),
           SumValues(FirstIteration(symbols_list,
               RAdd(ActualPortfolio(symbols_list),
                    NetAmount(invest_amount, transaction_fee)))))

\* C3 (as claimed): with a valid fee, no order_value exceeds the cash allocated
\* to the symbol before the settlement loop times (1 + fee).
C3_NoOversellOfAllocation ==
    (Returned /\ RLt(transaction_fee, One)) =>
        \A s \in Records :
            RLe(s.order_value,
                RMul(Get(allocated, s.symbol, Zero), RAdd(One, transaction_fee)))

\* C3 (amended): the pre-fee value of an order never exceeds the cash the
\* symbol has when it is settled (its allocation plus the leftover shares it
\* received; nothing is bought with negative cash), and order_value never
\* exceeds that cash times (1 + fee), rounded to 2 decimals.
C3_NoOversellOfSettledCash ==
    Returned =>
        \A s \in Records :
            /\ RLe(RawValue(s), RMax(Zero, Cash(s)))
            /\ RLe(s.order_value,
                   Round2(RMul(RMax(Zero, Cash(s)), RAdd(One, transaction_fee))))

\* An order is worth more than the allocation of its symbol, fee included.
C3_Witness ==
    /\ Returned
    /\ RLt(transaction_fee, One)
    /\ \E s \in Records :
          /\ s.symbol \in DOMAIN allocated
          /\ RGt(s.order_value,
                 RMul(allocated[s.symbol], RAdd(One, transaction_fee)))

\* C4: after calculate_orders returns (all prices are positive then),
\* buy_quantity >= 0 and order_value >= 0 for every record.
C4_NonNegative ==
    Returned =>
        \A s \in Records : s.buy_quantity >= 0 /\ RLe(Zero, s.order_value)

\* A run whose orders had negative cash (a fee above 100 %) returned.
C4_Witness ==
    /\ Returned
    /\ \E s \in Records : RLt(Cash(s), Zero)
    /\ \A s \in Records : RGt(s.buy_price, Zero)

\* C5: after calculate_orders returns, every record has order_value = 0 or a
\* pre-fee value buy_quantity * buy_price above MINIMUM_ORDER_VALUE; an order
\* whose pre-fee value is <= MINIMUM_ORDER_VALUE is written as no order.
C5_Threshold ==
    Returned =>
        \A s \in Records :
            /\ s.order_value = Zero \/ RGt(RawValue(s), Q(MINIMUM_ORDER_VALUE))
            /\ RLe(RMul(Q(Floor(RDiv(Cash(s), s.buy_price))), s.buy_price),
                   Q(MINIMUM_ORDER_VALUE)) => NoOrder(s)

\* A symbol had more cash than MINIMUM_ORDER_VALUE, but the shares it could
\* buy were not worth more, so it got no order; another symbol got one.
C5_Witness ==
    /\ Returned
    /\ \E s \in Records : RGt(Cash(s), Q(MINIMUM_ORDER_VALUE)) /\ NoOrder(s)
    /\ \E s \in Records : s.buy_quantity > 0

SymbolsOf(list) == {list[i].symbol : i \in DOMAIN list}

\* The record of a symbol in the list handed to calculate_orders.
InputOf(name) ==
    input_list[CHOOSE i \in DOMAIN input_list : input_list[i].symbol = name]

\* C6: after calculate_orders returns, symbols_list is in strictly ascending
\* order of the symbol key, whatever the order of the input list.
C6_SortedBySymbol ==
    Returned =>
        \A i, j \in DOMAIN symbols_list :
            i < j => Rank(symbols_list[i].symbol) < Rank(symbols_list[j].symbol)

\* The input list was in descending order of the symbol key.
C6_Witness ==
    /\ Returned
    /\ Len(input_list) >= 2
    /\ Rank(input_list[1].symbol) > Rank(input_list[2].symbol)

\* C7: calculate_orders returns the records it was given: as many of them,
\* with the same set of symbol keys, none twice, and every record (also one
\* that got no order) has buy_quantity and order_value.
C7_SameRecords ==
    Returned =>
        /\ Len(symbols_list) = Len(input_list)
        /\ SymbolsOf(symbols_list) = SymbolsOf(input_list)
        /\ \A i, j \in DOMAIN symbols_list :
              i # j => symbols_list[i].symbol # symbols_list[j].symbol
        /\ \A s \in Records :
              "buy_quantity" \in DOMAIN s /\ "order_value" \in DOMAIN s

\* Collected records, which had no orders yet: one got an order, one did not.
C7_Witness ==
    /\ Returned
    /\ \A i \in DOMAIN input_list : "buy_quantity" \notin DOMAIN input_list[i]
    /\ \E s, t \in Records : s.buy_quantity > 0 /\ NoOrder(t)

\* C8: after calculate_orders on weights with a positive sum, the weight of
\* every record is its input weight times 1 / (sum of the input weights), and
\* the weights of the returned records sum to 1.
C8_WeightsRescaled ==
    Returned =>
        /\ \A s \in Records :
              s.weight = RDiv(InputOf(s.symbol).weight, WeightSum(input_list))
        /\ WeightSum(symbols_list) = One

\* The input weights did not sum to 1 and were not all equal.
C8_Witness ==
    /\ Returned
    /\ WeightSum(input_list) # One
    /\ \E s, t \in Records :
          RLt(Zero, s.weight) /\ RLt(s.weight, t.weight)

\* C9 (as claimed): when the weights sum to 0 (all weights 0, or no record),
\* calculate_orders raises nothing and returns the input records unchanged
\* except that every buy_quantity and order_value is 0.
C9_ZeroWeightSumIsNoOp ==
    (pc \in {"done", "raised"} /\ IsZero(WeightSum(input_list))) =>
        /\ pc = "done"
        /\ fault = "none"
        /\ Len(symbols_list) = Len(input_list)
        /\ \A i \in DOMAIN symbols_list :
              symbols_list[i] =
                  Update(input_list[i],
                         [buy_quantity |-> 0, order_value |-> Zero])

\* C10 (as claimed): when the settlement loop reaches a symbol whose
\* buy_price is 0, nothing is raised, and the symbol gets buy_quantity = 0 and
\* order_value = 0.
C10_ZeroPriceGuarded ==
    \A s \in Records :
        (s.symbol \in DOMAIN settled /\ IsZero(Get(s, "buy_price", Zero))) =>
            /\ fault = "none"
            /\ "buy_quantity" \in DOMAIN s /\ s.buy_quantity = 0
            /\ "order_value" \in DOMAIN s /\ s.order_value = Zero

\* The preconditions of the allocator, on the inputs of the call: a
\* non-negative invest amount, a fee in [0, 1), non-negative weights with at
\* least one positive, positive prices, non-negative holdings.
Preconditions ==
    /\ RLe(Zero, invest_amount)
    /\ RLe(Zero, transaction_fee) /\ RLt(transaction_fee, One)
    /\ \A i \in DOMAIN input_list :
          /\ RLe(Zero, Get(input_list[i], "weight", Zero))
          /\ RGt(Get(input_list[i], "buy_price", Zero), Zero)
          /\ RLe(Zero, Get(input_list[i], "current_quantity", Zero))
    /\ \E i \in DOMAIN input_list : RGt(Get(input_list[i], "weight", Zero), Zero)

\* C11 (as claimed): on every input that satisfies the preconditions
\* (invest_amount = 0 and a balanced or empty portfolio included),
\* calculate_orders raises nothing.
C11_NoFaultUnderPreconditions ==
    (pc # "init" /\ Preconditions) => fault = "none"

\* C12 (as claimed): with a fee outside [0, 1) calculate_orders raises an
\* error instead of writing orders into the records.
C12_InvalidFeeRaises ==
    (pc # "init" /\ ~(RLe(Zero, transaction_fee) /\ RLt(transaction_fee, One))) =>
        /\ ~Returned
        /\ \A s \in Records :
              /\ "buy_quantity" \in DOMAIN s =>
                    s.buy_quantity = Get(InputOf(s.symbol), "buy_quantity", 0)
              /\ "order_value" \in DOMAIN s =>
                    s.order_value = Get(InputOf(s.symbol), "order_value", Zero)

\* target_portfolio of the call, from the list it was given.
TargetPortfolio ==
    RAdd(ActualPortfolio(input_list), NetAmount(invest_amount, transaction_fee))

\* The gap of a record: target_portfolio * rescaled weight - holding.
Gap(s, target_portfolio) == Difference(s, target_portfolio)

\* C13: a symbol whose gap (target_portfolio * rescaled weight - buy_price *
\* current_quantity) is <= 0 is never given order cash, never receives a
\* leftover share, and ends with buy_quantity = 0 and order_value = 0.
C13_NoOrderForOverweight ==
    LoopReached =>
        LET target_portfolio == TargetPortfolio
        IN  \A s \in Records :
            RLe(Gap(s, target_portfolio), Zero) =>
                /\ s.symbol \notin DOMAIN allocated
                /\ s.symbol \notin DOMAIN orders
                /\ s.symbol \notin DOMAIN received
                /\ s.symbol \in DOMAIN settled => Cash(s) = Zero
                /\ Returned => NoOrder(s)

\* A symbol held above its target got nothing while another symbol left cash
\* over and a third party of the run, the other symbol, got an order.
C13_Witness ==
    /\ Returned
    /\ \E s, t \in Records :
          /\ RLt(Gap(s, TargetPortfolio), Zero)
          /\ RGt(Holding(s), Zero)
          /\ t.buy_quantity > 0
          /\ RLt(RawValue(t), Cash(t))

\* The number of times a symbol was popped from the heap.
TimesPopped(name) == Cardinality({i \in DOMAIN popped : popped[i] = name})

\* C15: calculate_orders always terminates on a finite list, the settlement
\* loop runs once per record and every record is settled exactly once.  While
\* the loop runs there is a record to pop (the only thing an iteration waits
\* for), and the iterations done and the records still in the heap add up to
\* the n records of the call, so that there are at most n iterations; no
\* record is popped twice; and when the call returns the heap is empty, there
\* were exactly n iterations and every record was popped exactly once.
C15_Terminates ==
    /\ pc = "settle" =>
          /\ symbols_heap # <<>>
          /\ Len(popped) + Len(symbols_heap) = Len(input_list)
    /\ LoopReached =>
          \A i \in DOMAIN input_list : TimesPopped(input_list[i].symbol) <= 1
    /\ Returned =>
          /\ symbols_heap = <<>>
          /\ Len(popped) = Len(input_list)
          /\ \A i \in DOMAIN input_list : TimesPopped(input_list[i].symbol) = 1

\* A call on two records returned after two iterations.
C15_Witness ==
    /\ Returned
    /\ Len(input_list) = 2
    /\ Len(popped) = 2
    /\ popped[1] # popped[2]

\* The record of that symbol in the current list.
RecordOf(name) ==
    symbols_list[CHOOSE i \in DOMAIN symbols_list : symbols_list[i].symbol = name]

\* The fields calculate_orders may write.
WrittenFields == {"weight", "buy_quantity", "order_value"}

\* C17: calculate_orders writes only weight, buy_quantity and order_value:
\* at every point of the call, and when it has returned or raised, every record
\* of the input is in the list with the same symbol, buy_price and
\* current_quantity (present with the same value, or absent as before), and
\* the list has no key that is neither an input key nor a written field.
C17_Frame ==
    pc # "init" =>
        /\ SymbolsOf(symbols_list) = SymbolsOf(input_list)
        /\ \A i \in DOMAIN input_list :
              LET before == input_list[i]
                  after  == RecordOf(before.symbol)
              IN  /\ DOMAIN before \ WrittenFields = DOMAIN after \ WrittenFields
                  /\ DOMAIN after \subseteq DOMAIN before \cup WrittenFields
                  /\ \A key \in DOMAIN before \ WrittenFields :
                        after[key] = before[key]

\* A call returned after it changed the weight, the quantity and the value of
\* a record that has holdings.
C17_Witness ==
    /\ Returned
    /\ \E i \in DOMAIN input_list :
          LET before == input_list[i]
              after  == RecordOf(before.symbol)
          IN  /\ "current_quantity" \in DOMAIN before
              /\ after.weight # before.weight
              /\ after.buy_quantity > 0
              /\ after.buy_quantity # before.buy_quantity
              /\ after.order_value # before.order_value

\* The symbols whose order cash or leftover shares grew or appeared in a step.
Gained ==
    {key \in DOMAIN orders' : key \notin DOMAIN orders \/ orders'[key] # orders[key]}
        \cup {key \in DOMAIN received' :
                 received'[key] # Get(received, key, Zero)}

\* C18: the settlement pass takes the records in non-increasing buy_price
\* order: in every iteration the record settled costs at least as much as
\* every record still in the heap, and the leftover of the iteration is added
\* only to symbols that are still in the heap (never to the symbol settled now
\* or to one settled before), each of a buy_price less than or equal to the
\* price of the symbol settled.
C18_SettlementOrder ==
    [][pc = "settle" =>
          LET price == Get(Head(symbols_heap), "buy_price", Zero)
          IN  /\ \A i \in DOMAIN symbols_heap' :
                    RLe(symbols_heap'[i].buy_price, price)
              /\ \A key \in Gained \cup DOMAIN orders' :
                    /\ \A i \in DOMAIN popped' : popped'[i] # key
                    /\ \E i \in DOMAIN symbols_heap' :
                          /\ symbols_heap'[i].symbol = key
                          /\ RLe(symbols_heap'[i].buy_price, price)]_vars

\* The leftover of a settled symbol of price 140 went to a symbol of price 33.
C18_Witness ==
    /\ Len(popped) >= 1
    /\ InputOf(popped[1]).buy_price = Q(140)
    /\ \E key \in DOMAIN received :
          /\ RGt(received[key], Zero)
          /\ InputOf(key).buy_price = Q(33)
          /\ \A i \in DOMAIN popped : popped[i] # key

\* The cash still in orders plus buy_quantity * buy_price of the records
\* settled so far.
CashInPlay(od, list, done) ==
    RAdd(SumValues(od),
         RSum([i \in DOMAIN done |->
                 RawValue(list[CHOOSE j \in DOMAIN list :
                                  list[j].symbol = done[i]])]))

SoloRun(t) ==
    LET a == cb_args[t]
    IN  RunCalculateOrders(
            NextList(cb_start[t], a.symbols_list_size, a.symbols_data),
            a.invest_amount, FeeFraction(a.transaction_fee))

\* C14 (as claimed): when the callbacks of two requests interleave at the
\* granularity of their statements, each callback that returns, returns the
\* table a run on its own would return.
C14_NoInterference ==
    \A t \in Threads :
        cb_pc[t] = "returned" =>
            /\ SoloRun(t).fault = "none"
            /\ cb_result[t] = SoloRun(t).symbols_list

\* The order of the statements of the callback.
CallbackOrder ==
    {<<"idle", "list">>, <<"list", "amount">>, <<"amount", "fee">>,
     <<"fee", "calculate">>, <<"calculate", "return">>,
     <<"calculate", "failed">>, <<"return", "returned">>}

\* C16: in every callback, the statement after the entry collects a fresh list
\* of the requested size, and does not apply the rows sent by the browser,
\* when the requested size differs from the length of the list the
\* application holds; otherwise it puts the rows of the browser in the
\* application when there are any, and leaves the list alone when there are
\* none.  In both cases the callback then sets invest_amount, sets
\* transaction_fee (as a fraction), runs calculate_orders, and returns the
\* list of the application: calculate_orders has run exactly once when the
\* list is returned.
C16_CallbackSteps ==
    [][\A t \in Threads :
          LET a == cb_args[t]
          IN  /\ cb_pc'[t] # cb_pc[t] => <<cb_pc[t], cb_pc'[t]>> \in CallbackOrder
              /\ (cb_pc[t] = "list" /\ cb_pc'[t] = "amount") =>
                    IF Len(symbols_list) # a.symbols_list_size
                    THEN /\ symbols_list' = Collect(a.symbols_list_size)
                         /\ symbols_list' # a.symbols_data
                    ELSE IF a.symbols_data # <<>>
                         THEN symbols_list' = a.symbols_data
                         ELSE symbols_list' = symbols_list
              /\ (cb_pc[t] = "amount" /\ cb_pc'[t] = "fee") =>
                    invest_amount' = a.invest_amount
              /\ (cb_pc[t] = "fee" /\ cb_pc'[t] = "calculate") =>
                    /\ transaction_fee' = RDiv(a.transaction_fee, Q(100))
                    /\ cb_calls[t] = 0
              /\ cb_calls'[t] # cb_calls[t] =>
                    /\ cb_pc[t] = "calculate"
                    /\ cb_calls'[t] = cb_calls[t] + 1
              /\ (cb_pc[t] = "return" /\ cb_pc'[t] = "returned") =>
                    /\ cb_calls[t] = 1
                    /\ cb_result'[t] = symbols_list]_vars

\* One callback returned after it collected a fresh list although the browser
\* had sent rows, the other returned after it applied the rows of the browser.
C16_Witness ==
    \E t, u \in Threads :
        /\ cb_pc[t] = "returned"
        /\ cb_applied[t] = "collected"
        /\ cb_args[t].symbols_data # <<>>
        /\ cb_pc[u] = "returned"
        /\ cb_applied[u] = "table"
        /\ cb_calls[t] = 1
        /\ cb_calls[u] = 1

\* The body of the callback of u starts after the callback of t has ended.
Follows(u, t) ==
    /\ t # u
    /\ cb_pc[t] \in {"returned", "failed"}
    /\ cb_pc[u] = "list"

\* C28 (as claimed): a callback that follows another one with the same
\* symbols_list_size and brings rows of the table (symbols_data is not
\* empty) does not collect again: it hands its rows to the application and
\* calculate_orders runs on them, also when the collector had returned fewer
\* records than the size asks for.
C28_EditsAppliedWhenSizeKept ==
    [][\A t, u \in Threads :
          (/\ Follows(u, t)
           /\ cb_pc'[u] = "amount"
           /\ cb_args[u].symbols_list_size = cb_args[t].symbols_list_size
           /\ cb_args[u].symbols_data # <<>>)
          => /\ cb_applied'[u] = "table"
             /\ symbols_list' = cb_args[u].symbols_data]_vars

(***************************************************************************)
(* Properties of calculate_symbols_amounts (docker-swarm).                 *)
(***************************************************************************)
\* A request was calculated.
SwarmCalculated == sw_targets # EmptyDict

\* C20 (as claimed): in calculate_symbols_amounts the weights used for the
\* targets are rescaled so that they sum to 1 over the symbols (the sum of
\* scale_factor * weights[symbol] is 1), and the targets of the symbols sum to
\* target_portfolio.
C20_ScaledWeightsSumToOne ==
    SwarmCalculated =>
        /\ RSum([i \in DOMAIN sw_table |->
                    RMul(sw_scale_factor, sw_weights[sw_table[i].symbol])]) = One
        /\ SumValues(sw_targets) = sw_target_portfolio

(***************************************************************************)
(* The two branches of the second iteration, lines 86-126.                 *)
(***************************************************************************)
\* The differences of all records of the input, positive or not, after the
\* weights are rescaled.
SignedGaps ==
    LET list   == Rescale(input_list, RDiv(One, WeightSum(input_list)))
        target == RAdd(ActualPortfolio(input_list),
                       NetAmount(invest_amount, transaction_fee))
    IN  [i \in DOMAIN list |-> Difference(list[i], target)]

\* The sum of the positive differences: total_differences of line 106.
PositiveGapSum ==
    LET gaps == SignedGaps
    IN  RSum([i \in DOMAIN gaps |-> RMax(gaps[i], Zero)])

\* The second iteration was entered: the weights have a sum.
BranchTaken == branch \in {"lt", "ge"}

\* C24: under the preconditions the differences of all records sum to the net
\* amount, so the sum of the positive differences is never smaller than the
\* net amount and the branch 'total_differences < invest_amount' is never
\* executed.
C24_LeftBranchDead ==
    (Preconditions /\ BranchTaken) =>
        /\ branch = "ge"
        /\ RSum(SignedGaps) = NetAmount(invest_amount, transaction_fee)
        /\ RLe(NetAmount(invest_amount, transaction_fee), PositiveGapSum)

\* The comparison was made with a record held above its target: the positive
\* differences sum to more than the net amount.
C24_Witness ==
    /\ Preconditions
    /\ branch = "ge"
    /\ pc = "done"
    /\ \E i \in DOMAIN input_list : RLt(SignedGaps[i], Zero)
    /\ RLt(NetAmount(invest_amount, transaction_fee), PositiveGapSum)

(***************************************************************************)
(* The budget of the whole call, lines 78-79 and 106-163.                  *)
(***************************************************************************)
\* The sum of buy_quantity * buy_price over the returned records.
RawTotal == RSum([i \in DOMAIN symbols_list |-> RawValue(symbols_list[i])])

\* C25: under the preconditions the pre-fee order values of a returned list
\* sum to at most invest_amount * (1 - fee), and with the fee added
\* (buy_quantity * buy_price * (1 + fee), not rounded) to at most
\* invest_amount.
C25_BudgetCap ==
    (Returned /\ Preconditions) =>
        /\ RLe(RawTotal, NetAmount(invest_amount, transaction_fee))
        /\ RLe(RMul(RawTotal, RAdd(One, transaction_fee)), invest_amount)

\* Two symbols were bought, one of them with a leftover share of the other,
\* with a fee, and the orders stay within the net amount.
C25_Witness ==
    /\ Returned
    /\ Preconditions
    /\ RGt(transaction_fee, Zero)
    /\ \E s, t \in Records :
          /\ s.symbol # t.symbol
          /\ s.buy_quantity > 0
          /\ t.buy_quantity > 0
          /\ RGt(Get(received, t.symbol, Zero), Zero)
    /\ RLt(Zero, RawTotal)

(***************************************************************************)
(* The order of the input list, lines 128-158.                             *)
(***************************************************************************)
\* The lists that hold the records of the input in another order.
Reorderings(list) ==
    {[i \in DOMAIN list |-> list[p[i]]] :
        p \in {q \in [DOMAIN list -> DOMAIN list] :
                  \A i, j \in DOMAIN list : i # j => q[i] # q[j]}}

\* Two returned lists give every symbol the same order.
SameOrders(a, b) ==
    \A i \in DOMAIN a, j \in DOMAIN b :
        a[i].symbol = b[j].symbol =>
            /\ a[i].buy_quantity = b[j].buy_quantity
            /\ a[i].order_value = b[j].order_value

\* C26 (as claimed): the orders do not depend on the order of the input
\* list: a call on any permutation of the records of the input, two symbols
\* of equal buy_price included, returns the same buy_quantity and order_value
\* for every symbol.
C26_OrderIndependent ==
    Returned =>
        \A other \in Reorderings(input_list) :
            LET run == RunCalculateOrders(other, invest_amount, transaction_fee)
            IN  /\ run.fault = "none"
                /\ SameOrders(symbols_list, run.symbols_list)

(***************************************************************************)
(* A second call on the returned list, lines 88-97 and 128-173.            *)
(***************************************************************************)
\* C27 (as claimed): calculate_orders is idempotent on its own output: a
\* second call on the list it returned, with the same invest_amount and
\* transaction_fee, returns every record with the weight, the buy_quantity
\* and the order_value of the first call.
C27_Idempotent ==
    Returned =>
        LET again == RunCalculateOrders(symbols_list, invest_amount,
                                        transaction_fee)
        IN  /\ again.fault = "none"
            /\ \A i \in DOMAIN symbols_list :
                  /\ again.symbols_list[i].symbol = symbols_list[i].symbol
                  /\ again.symbols_list[i].weight = symbols_list[i].weight
                  /\ again.symbols_list[i].buy_quantity =
                        symbols_list[i].buy_quantity
                  /\ again.symbols_list[i].order_value =
                        symbols_list[i].order_value

(***************************************************************************)
(* Properties of Application.run (docker-swarm).                           *)
(***************************************************************************)
\* C29: once an exception is raised inside the accept loop the executor is
\* shut down while the loop goes on: from then on the submit of every
\* accepted connection raises and is caught, no later client is handed to
\* thread_target, and the loop never exits.
C29_ShutdownIsFinal ==
    [][/\ (run_pc = "except" /\ run_pc' # run_pc) => executor_shutdown'
       /\ run_pc' # "exited"
       /\ executor_shutdown =>
             /\ executor_shutdown'
             /\ \A c \in Clients : worker[c] = "none" => worker'[c] = "none"
             /\ (run_pc = "submit" /\ run_pc' # run_pc) =>
                   /\ run_pc' = "except"
                   /\ run_client \in rejected']_vars

\* After a client was handed to a worker accept raised; the loop went on and
\* the submits of the two clients accepted since raised: the loop is at
\* accept again and neither client was handed to a worker.
C29_Witness ==
    /\ executor_shutdown
    /\ run_pc = "accept"
    /\ worker[1] = "done"
    /\ rejected = {2, 3}
    /\ worker[2] = "none"
    /\ worker[3] = "none"

(***************************************************************************)
(* Properties of the connection of a visualizer (docker-swarm).            *)
(***************************************************************************)
\* The table calculate_symbols_amounts makes of the two tables of a request.
ReplyTo(request) ==
    CalculateSymbolsAmounts(
        request.general_table[1].invest_amount,
        RDiv(request.general_table[1].transaction_fee, Q(100)),
        request.symbols_table, tt_weights).symbols

\* C22 (as claimed): on a connection thread_target sends the initial
\* symbols table first and once, and then, for every request the callback
\* wrote to the stream (the general table followed by the symbols table),
\* exactly one symbols table calculated from the two tables of that request,
\* in the order of the requests; what the callback of request k reads is
\* the table calculated from request k.
C22_OneReplyPerRequest ==
    /\ \A i \in DOMAIN tt_sent : (tt_sent[i].kind = "init") <=> (i = 1)
    /\ Len(tt_sent) <= Len(vz_requests) + 1
    /\ \A i \in DOMAIN tt_sent :
          i > 1 => tt_sent[i].table = ReplyTo(vz_requests[i - 1])
    /\ \A k \in DOMAIN vz_replies :
          /\ vz_replies[k].read
          /\ vz_replies[k].table = ReplyTo(vz_requests[k])

(***************************************************************************)
(* Properties of collect_symbols_data (pythonanywhere).                    *)
(***************************************************************************)
\* The sum of the weights stored so far.
StoredWeight ==
    RSum([i \in DOMAIN collected_list |-> collected_list[i].weight])

\* C23: whatever non-negative weights the rows of the index show, every
\* stored weight is at least 0, the stored weights sum to at most 100, and
\* after each row weight_total is 100 minus the sum of the weights stored so
\* far.
C23_WeightsCapped ==
    coll_pc # "start" =>
        /\ \A i \in DOMAIN collected_list :
              RLe(Zero, collected_list[i].weight)
        /\ RLe(StoredWeight, Q(100))
        /\ weight_total = RSub(Q(100), StoredWeight)

\* Three rows were read; the cap cut the weight of the second row and left
\* nothing for the third.
C23_Witness ==
    /\ coll_pc = "done"
    /\ Len(collected_list) = 3
    /\ collected_list[1].weight = Round2(raw_weights[1])
    /\ RLt(Zero, collected_list[2].weight)
    /\ RLt(collected_list[2].weight, Round2(raw_weights[2]))
    /\ RLt(Zero, raw_weights[3])
    /\ collected_list[3].weight = Zero
    /\ weight_total = Zero

(***************************************************************************)
(* Properties of calculate_orders (pythonanywhere).                        *)
(***************************************************************************)
\* C21 (as claimed): after calculate_orders of pythonanywhere returns, every
\* record has either order_value = 0 or a value before the fee,
\* buy_quantity * buy_price, strictly greater than MINIMUM_ORDER_VALUE.
C21_ThresholdOnRawValue ==
    pa_pc = "done" =>
        \A i \in DOMAIN pa_symbols_list :
            \/ pa_symbols_list[i].order_value = Zero
            \/ RGt(RMul(Q(pa_symbols_list[i].buy_quantity),
                        pa_symbols_list[i].buy_price),
                   Q(MINIMUM_ORDER_VALUE_PA))

=============================================================================
